---- MODULE Spec2Model ----
(***************************************************************************)
(* Fairshare (src/fairshare.py): the ledger of shared expenses kept in an  *)
(* SQLite database, its netting engine (get_status_dict, get_status_list)  *)
(* and the settlement operation (settle_expenses, settle).                 *)
(*                                                                         *)
(* Strings are sequences of one-character strings.  Amounts are exact      *)
(* rationals, held as integers in units of 1/Scale.  An operation that can *)
(* raise returns a record [exc, ...]: exc is None or the exception's name. *)
(***************************************************************************)
EXTENDS Integers, Sequences, FiniteSets, TLC

VARIABLES
    db,         \* the database as the open connection sees it
    committed,  \* the database on disk: what connection.commit() last wrote
    pc,         \* where the caller is: "idle" (the last call returned),
                \* "raised" (it raised), "settled" (settle() committed),
                \* "aborted" (settle_expenses failed), or in settle_expenses
                \* at "copy", "delete" or "commit"
    s_id,       \* settle_expenses: id of the settles row it inserted
    rows,       \* settle_expenses: the rows of expenses it selected
    i,          \* settle_expenses: index in rows of the expense in hand
    status_ret  \* status(): what get_status_list returned to the command

vars == <<db, committed, pc, s_id, rows, i, status_ret>>

----------------------------------------------------------------------------
(* Bounds of the model. *)

\* expense ids handed out (the AUTOINCREMENT counter of expenses is capped)
MaxExpenses == 2
\* settlement events created
MaxSettles == 1
\* length of a debtor list given to insert_expense / update_expense
MaxDebtors == 2
\* users created
MaxUserId == 2

\* date.today() as validate_expense_date sees it
Today == 20261101

None == "None"

----------------------------------------------------------------------------
(* Inputs. *)

\* u_name arguments: three usernames, and one for each rule of
\* validate_username
UserNames ==
    { <<"a">>, <<"b">>, <<"c">>, <<" ", "a">>, <<"1">>, <<"a", ",">>, << >> }

T(a) == << a >>

Str8(a, b, c, d, e, f, g, h) == <<a, b, c, d, e, f, g, h>>

\* the decimal text of the natural number n
RECURSIVE Decimal(_)
Decimal(n) ==
    LET c == CASE n % 10 = 0 -> "0" [] n % 10 = 1 -> "1" [] n % 10 = 2 -> "2"
               [] n % 10 = 3 -> "3" [] n % 10 = 4 -> "4" [] n % 10 = 5 -> "5"
               [] n % 10 = 6 -> "6" [] n % 10 = 7 -> "7" [] n % 10 = 8 -> "8"
               [] n % 10 = 9 -> "9"
    IN  IF n < 10 THEN << c >> ELSE Append(Decimal(n \div 10), c)

\* the cost argument for the integer n: a number is passed as its text,
\* float(20) being float('20')
Cost(n) == IF n < 0 THEN << "-" >> \o Decimal(-n) ELSE Decimal(n)

\* a cost argument float() cannot convert
NotANumber == << "a" >>

Jan1 == Str8("2", "0", "1", "3", "0", "1", "0", "1")

Jan2 == Str8("2", "0", "1", "3", "0", "1", "0", "2")

\* (title, cost, date) arguments every validation accepts
GoodFields == { << T("t"), Cost(2), Jan2 >>, << T("u"), Cost(3), Jan1 >> }

\* (title, cost, date) arguments with one field a validation rejects
BadFields ==
    { << <<" ", "t">>, Cost(2), Jan1 >>,
      << << >>, Cost(2), Jan1 >>,
      << T("t"), Cost(0), Jan1 >>,
      << T("t"), Cost(-2), Jan1 >>,
      << T("t"), NotANumber, Jan1 >>,
      << T("t"), Cost(2), Str8("2", "0", "1", "3", "0", "2", "2", "9") >>,
      << T("t"), Cost(2), Str8("2", "1", "1", "3", "0", "1", "0", "1") >>,
      << T("t"), Cost(2), <<"1", "3", "0", "1", "0", "1">> >>,
      << T("t"), Cost(2), << >> >> }

RECURSIVE SeqsUpTo(_, _)
SeqsUpTo(S, n) ==
    IF n = 0 THEN { << >> }
    ELSE LET shorter == SeqsUpTo(S, n - 1)
         IN  shorter \cup { Append(s, x) : s \in shorter, x \in S }

\* u_id arguments: the ids users can get, and one no user has
UserIds == 1 .. MaxUserId

NoUser == MaxUserId + 1

\* (title, cost, date, payer, debtors) arguments of insert_expense and of
\* update_expense: every combination of good fields with known users, and
\* each bad field or unknown user with the other arguments good
ExpenseArgs ==
    { << f[1], f[2], f[3], payer, debtors >> :
        f \in GoodFields, payer \in UserIds,
        debtors \in SeqsUpTo(UserIds, MaxDebtors) }
    \cup { << f[1], f[2], f[3], 1, << 1 >> >> : f \in BadFields }
    \cup { << f[1], f[2], f[3], NoUser, << 1 >> >> : f \in GoodFields }
    \cup { << f[1], f[2], f[3], 1, << 1, NoUser >> >> : f \in GoodFields }
    \cup { << << >>, Cost(0), << >>, NoUser, << NoUser >> >> }

\* an e_id no expense has
NoExpense == MaxExpenses + 1

\* (e_id, arguments) of update_expense: every argument list for the ids
\* expenses can get, and a good and a bad one for the id no expense has
UpdateArgs ==
    { << e_id, a >> : e_id \in 1 .. MaxExpenses, a \in ExpenseArgs }
    \cup { << NoExpense, << f[1], f[2], f[3], 1, << 1 >> >> >> :
             f \in GoodFields }
    \cup { << NoExpense, << << >>, Cost(0), << >>, NoUser, << NoUser >> >> >> }

Timestamps == { "20131114120000" }

\* date arguments for the listing: two dates in the form YYYYMMDD, and two
\* that strptime also converts, '201321' and '2013111'
ListDates ==
    { Jan1,
      Str8("2", "0", "1", "3", "1", "2", "0", "1"),
      <<"2", "0", "1", "3", "2", "1">>,
      <<"2", "0", "1", "3", "1", "1", "1">> }

\* arguments of the expenses of test_get_status_list: 20 and 40 between
\* users 1 and 2, then 105 split (1, 2) and 210 split (1, 2, 3), by payer
ScenarioArgs ==
    { << T("t"), Cost(20), Jan1, 1, << 1, 2 >> >>,
      << T("t"), Cost(40), Jan1, 2, << 1, 2 >> >> }
    \cup { << T("t"), Cost(105), Jan1, payer, << 1, 2 >> >> :
             payer \in { 1, 3 } }
    \cup { << T("t"), Cost(210), Jan1, payer, << 1, 2, 3 >> >> :
             payer \in { 1, 3 } }

\* cost arguments: the values of the tests (5, 0, -5, '', ' ', 'a') and
\* texts float() has a rule for
CostTexts ==
    { <<"5">>, <<"0">>, <<"-", "5">>, << >>, <<" ">>, <<"a">>,
      <<"+", "5">>, <<" ", "5", " ">>, <<"5", ".">>, <<".", "5">>,
      <<"2", ".", "5">>, <<"0", ".", "0">>, <<".">>, <<"-", "-", "1">>,
      <<"1", "e", "3">>, <<"1", "e">>, <<"e", "1">>,
      <<"1", "e", "4", "0", "0">>, <<"1", "e", "-", "4", "0", "0">>,
      <<"i", "n", "f">>, <<"-", "i", "n", "f">>,
      <<"I", "n", "f", "i", "n", "i", "t", "y">>, <<"n", "a", "n">> }

\* insert_expense / update_expense arguments that differ in the cost only
CostedArgs == { << T("t"), cost, Jan1, 1, << 1 >> >> : cost \in CostTexts }

\* arguments of expenses that are archived by one settlement or the next
ArchiveArgs ==
    { << T("t"), Cost(2), Jan2, 1, << 1, 2 >> >>,
      << T("u"), Cost(3), Jan1, 2, << 1 >> >>,
      << T("u"), Cost(3), Jan1, 2, << >> >>,
      << T("t"), Cost(2), Jan2, 1, << 2, 2 >> >> }

\* lines typed at the prompts of add_expense: a title, a cost and a date,
\* then the lines read for the payer and the lines read for the debtors;
\* c is a name no user has while at most two users exist
PayerLines == { << <<"a">> >>, << <<"c">>, <<"b">> >> }

DebtorLine ==
    { <<"a">>, <<"b">>, <<"c">>, <<"a", ",", "b">>,
      <<"a", ",", " ", "c">>, <<"b", ",", "b">> }

DebtorLines ==
    { << l >> : l \in DebtorLine }
    \cup { << l1, l2 >> : l1 \in DebtorLine, l2 \in DebtorLine }

ExpenseStdins ==
    { << T("t"), Cost(2), Jan1 >> \o p \o ds :
        p \in PayerLines, ds \in DebtorLines }

\* answers typed at the prompt of confirm, and the lines typed at it: one
\* answer, or an answer the loop does not accept and then one answer
Answers ==
    { <<"y">>, <<"y", "e", "s">>, <<"Y">>, <<"Y", "e", "s">>, <<" ", "y">>,
      <<"n">>, <<"N", "o">>, << >>, <<" ">>, <<"y", "e">> }

AnswerStdins ==
    { << ans >> : ans \in Answers }
    \cup { << <<"x">>, ans >> : ans \in Answers }

\* username texts: valid names, names with blanks around them, empty and
\* blank names, names with a comma, and names that are numerals
NameTexts ==
    { <<"a">>, <<"a", "1">>, <<"a", " ", "a">>, <<"-">>, <<"+">>,
      <<" ", "a">>, <<"a", " ">>, << >>, <<" ">>, <<",">>,
      <<"a", ",", "b">>, <<"1", ",", "5">>,
      <<"1">>, <<"-", "1">>, <<"+", "1">>, <<"1", "2">>,
      <<"1", ".", "5">>, <<"-", "1", ".", "5">>, <<".", "5">>,
      <<"1", "e", "3">> }

\* insert_expense / update_expense arguments that differ in the date only
ListArgs == { << T("t"), Cost(2), date, 1, << 1 >> >> : date \in ListDates }

----------------------------------------------------------------------------
(* Arithmetic helpers. *)

RECURSIVE GCD(_, _)
GCD(a, b) == IF b = 0 THEN a ELSE GCD(b, a % b)

RECURSIVE LCMUpTo(_)
LCMUpTo(n) == IF n <= 1 THEN 1
              ELSE LET l == LCMUpTo(n - 1) IN (l * n) \div GCD(l, n)

\* amounts are counted in units of 1/Scale, so cost / len(debtors) is exact
\* for every list of up to MaxDebtors + 1 debtors
Scale == LCMUpTo(MaxDebtors + 1)

Abs(x) == IF x < 0 THEN -x ELSE x

Range(s) == { s[k] : k \in DOMAIN s }

\* the elements of s at the indices in K, in the order of s
RECURSIVE OrderedSubSeq(_, _)
OrderedSubSeq(s, K) ==
    IF K = {} THEN << >>
    ELSE LET k == CHOOSE x \in K : \A y \in K : x >= y
         IN  Append(OrderedSubSeq(s, K \ { k }), s[k])

----------------------------------------------------------------------------
(* str methods. *)

RECURSIVE LStrip(_)
LStrip(s) == IF s # <<>> /\ Head(s) = " " THEN LStrip(Tail(s)) ELSE s

RECURSIVE RStrip(_)
RStrip(s) == IF s # <<>> /\ s[Len(s)] = " "
             THEN RStrip(SubSeq(s, 1, Len(s) - 1)) ELSE s

Strip(s) == RStrip(LStrip(s))

IsSpace(s) == s # <<>> /\ \A k \in DOMAIN s : s[k] = " "

Digits == { "0", "1", "2", "3", "4", "5", "6", "7", "8", "9" }

\* int(s) succeeds: optional sign, then digits, blanks around them allowed
ParsesAsInt(s) ==
    LET t == Strip(s)
        u == IF t # <<>> /\ Head(t) \in { "+", "-" } THEN Tail(t) ELSE t
    IN  u # <<>> /\ \A k \in DOMAIN u : u[k] \in Digits

DigitVal(c) ==
    CASE c = "0" -> 0 [] c = "1" -> 1 [] c = "2" -> 2 [] c = "3" -> 3
      [] c = "4" -> 4 [] c = "5" -> 5 [] c = "6" -> 6 [] c = "7" -> 7
      [] c = "8" -> 8 [] c = "9" -> 9

RECURSIVE ToNat(_)
ToNat(s) == IF s = <<>> THEN 0
            ELSE 10 * ToNat(SubSeq(s, 1, Len(s) - 1)) + DigitVal(s[Len(s)])

IsDigits(s) == \A k \in DOMAIN s : s[k] \in Digits

\* text order of two strings of digits, as SQLite compares TEXT values
RECURSIVE StrLess(_, _)
StrLess(s, t) ==
    IF t = <<>> THEN FALSE
    ELSE IF s = <<>> THEN TRUE
    ELSE IF Head(s) # Head(t) THEN DigitVal(Head(s)) < DigitVal(Head(t))
    ELSE StrLess(Tail(s), Tail(t))

----------------------------------------------------------------------------
(* datetime.datetime.strptime(date, '%Y%m%d'): the directives are matched  *)
(* as the regular expression                                                *)
(*   (\d\d\d\d)(1[0-2]|0[1-9]|[1-9])(3[01]|[12]\d|0[1-9]|[1-9]| [1-9])       *)
(* from the start of the string; the first match in the order of the       *)
(* alternatives is taken and must end at the end of the string.            *)

\* length of the text the %m directive takes at the head of s, tried in order
MonthLens(s) ==
    LET two == Len(s) >= 2
               /\ \/ s[1] = "1" /\ s[2] \in { "0", "1", "2" }
                  \/ s[1] = "0" /\ s[2] \in Digits \ { "0" }
        one == Len(s) >= 1 /\ s[1] \in Digits \ { "0" }
    IN  (IF two THEN << 2 >> ELSE << >>) \o (IF one THEN << 1 >> ELSE << >>)

\* length of the text the %d directive takes at the head of s (0: no match)
DayLen(s) ==
    IF Len(s) >= 2 /\ \/ s[1] = "3" /\ s[2] \in { "0", "1" }
                      \/ s[1] \in { "1", "2" } /\ s[2] \in Digits
                      \/ s[1] = "0" /\ s[2] \in Digits \ { "0" }
    THEN 2
    ELSE IF Len(s) >= 1 /\ s[1] \in Digits \ { "0" } THEN 1
    ELSE IF Len(s) >= 2 /\ s[1] = " " /\ s[2] \in Digits \ { "0" } THEN 2
    ELSE 0

IsLeap(y) == (y % 4 = 0 /\ y % 100 # 0) \/ y % 400 = 0

DaysInMonth(y, m) ==
    IF m = 2 THEN (IF IsLeap(y) THEN 29 ELSE 28)
    ELSE IF m \in { 4, 6, 9, 11 } THEN 30 ELSE 31

\* [exc, val]: val is the date as the number YYYYMMDD
ParseDate(s) ==
    LET bad == [exc |-> "ValueError", val |-> 0]
    IN  IF ~(Len(s) >= 4 /\ IsDigits(SubSeq(s, 1, 4))) THEN bad
        ELSE
        LET rest == SubSeq(s, 5, Len(s))
            ms   == MonthLens(rest)
            ok   == { k \in DOMAIN ms :
                        DayLen(SubSeq(rest, ms[k] + 1, Len(rest))) > 0 }
        IN  IF ok = {} THEN bad
            ELSE
            LET k    == CHOOSE x \in ok : \A z \in ok : x <= z
                dstr == SubSeq(rest, ms[k] + 1, Len(rest))
                dl   == DayLen(dstr)
                y    == ToNat(SubSeq(s, 1, 4))
                m    == ToNat(SubSeq(rest, 1, ms[k]))
                d    == ToNat(Strip(SubSeq(dstr, 1, dl)))
            IN  IF 4 + ms[k] + dl # Len(s) THEN bad   \* unconverted data remains
                ELSE IF y < 1 \/ d > DaysInMonth(y, m) THEN bad
                ELSE [exc |-> None, val |-> y * 10000 + m * 100 + d]

\* ParseDate of every date argument, computed once
DateArgs == { a[3] : a \in ExpenseArgs } \cup ListDates

ParsedDates == [ s \in DateArgs |-> ParseDate(s) ]

strptime(s) == ParsedDates[s]

----------------------------------------------------------------------------
(* float(str): blanks around the text are dropped and letter case does not *)
(* matter; then an optional sign and either inf, infinity, nan or a        *)
(* decimal number with an optional fraction and exponent.  The result is   *)
(* [exc, val], val being [kind, neg, num, den]: kind "finite" stands for   *)
(* the number num/den in lowest terms, negated if neg.  A number of        *)
(* magnitude 10^309 and more converts to inf, one below 10^-324 to zero;   *)
(* the arguments modelled stay clear of the two limits in between, and     *)
(* hold no underscore and no digit outside 0-9.                            *)

Lower(c) ==
    CASE c = "I" -> "i" [] c = "N" -> "n" [] c = "F" -> "f" [] c = "E" -> "e"
      [] c = "A" -> "a" [] c = "T" -> "t" [] c = "Y" -> "y" [] c = "S" -> "s"
      [] c = "O" -> "o" [] OTHER -> c

\* the number num/den, num >= 0 and den > 0, in lowest terms
Real(num, den) ==
    [kind |-> "finite", neg |-> FALSE,
     num |-> num \div GCD(num, den), den |-> den \div GCD(num, den)]

RECURSIVE Pow10(_)
Pow10(n) == IF n <= 0 THEN 1 ELSE 10 * Pow10(n - 1)

\* index of the first c in s, 0 if there is none
IndexOf(s, c) ==
    IF \E k \in DOMAIN s : s[k] = c
    THEN CHOOSE k \in DOMAIN s : s[k] = c /\ \A j \in 1 .. k - 1 : s[j] # c
    ELSE 0

RECURSIVE DropZeros(_)
DropZeros(s) == IF s # << >> /\ Head(s) = "0" THEN DropZeros(Tail(s)) ELSE s

\* the digits sig (no leading zero) times 10^e10, negated if neg
FloatValue(sig, e10, neg) ==
    IF sig = << >> \/ Len(sig) - 1 + e10 < -324
    THEN [exc |-> None, val |-> [Real(0, 1) EXCEPT !.neg = neg]]
    ELSE IF Len(sig) - 1 + e10 > 308
    THEN [exc |-> None,
          val |-> [kind |-> "inf", neg |-> neg, num |-> 1, den |-> 1]]
    ELSE [exc |-> None,
          val |-> [Real(ToNat(sig) * Pow10(e10), Pow10(-e10))
                      EXCEPT !.neg = neg]]

\* integer part ip, fraction fp, and the exponent: its digits edig, negative
\* if eneg, present if has_e
FloatParts(ip, fp, has_e, eneg, edig, neg) ==
    IF ~(IsDigits(ip) /\ IsDigits(fp) /\ Len(ip) + Len(fp) >= 1)
    THEN [exc |-> "ValueError", val |-> Real(0, 1)]
    ELSE IF has_e /\ ~(edig # << >> /\ IsDigits(edig))
    THEN [exc |-> "ValueError", val |-> Real(0, 1)]
    ELSE FloatValue(DropZeros(ip \o fp),
                    (IF eneg THEN -ToNat(edig) ELSE ToNat(edig)) - Len(fp),
                    neg)

\* mantissa mant and the text ex after the e, if has_e
FloatNumber(mant, has_e, ex, neg) ==
    FloatParts(IF IndexOf(mant, ".") = 0 THEN mant
               ELSE SubSeq(mant, 1, IndexOf(mant, ".") - 1),
               IF IndexOf(mant, ".") = 0 THEN << >>
               ELSE SubSeq(mant, IndexOf(mant, ".") + 1, Len(mant)),
               has_e,
               ex # << >> /\ ex[1] = "-",
               IF ex # << >> /\ ex[1] \in { "+", "-" } THEN Tail(ex) ELSE ex,
               neg)

\* the text b after the sign
FloatUnsigned(b, neg) ==
    IF b \in { <<"i", "n", "f">>,
               <<"i", "n", "f", "i", "n", "i", "t", "y">> }
    THEN [exc |-> None,
          val |-> [kind |-> "inf", neg |-> neg, num |-> 1, den |-> 1]]
    ELSE IF b = <<"n", "a", "n">>
    THEN [exc |-> None,
          val |-> [kind |-> "nan", neg |-> neg, num |-> 0, den |-> 1]]
    ELSE IF IndexOf(b, "e") = 0 THEN FloatNumber(b, FALSE, << >>, neg)
    ELSE FloatNumber(SubSeq(b, 1, IndexOf(b, "e") - 1), TRUE,
                     SubSeq(b, IndexOf(b, "e") + 1, Len(b)), neg)

\* the text t without blanks around it, in lower case
FloatSigned(t) ==
    IF t # << >> /\ t[1] \in { "+", "-" }
    THEN FloatUnsigned(Tail(t), t[1] = "-")
    ELSE FloatUnsigned(t, FALSE)

ParseFloat(s) == FloatSigned([ k \in DOMAIN Strip(s) |-> Lower(Strip(s)[k]) ])

\* ParseFloat of every cost argument, computed once
CostArgs ==
    { a[2] : a \in ExpenseArgs \cup ScenarioArgs \cup ListArgs \cup CostedArgs }

ParsedCosts == [ s \in CostArgs |-> ParseFloat(s) ]

float(s) == ParsedCosts[s]

\* cost > 0 for a float
Positive(f) == f.kind # "nan" /\ ~f.neg /\ f.num > 0

\* the finite float f in units of 1/Scale
Units(f) == (f.num * Scale) \div f.den

----------------------------------------------------------------------------
(* Validation layer. *)

validate_username(u_name) ==
    IF u_name # Strip(u_name) THEN [exc |-> "IllegalUsernameError", val |-> u_name]
    ELSE IF u_name = <<>> \/ IsSpace(u_name)
         THEN [exc |-> "IllegalUsernameError", val |-> u_name]
    ELSE IF "," \in Range(u_name)
         THEN [exc |-> "IllegalUsernameError", val |-> u_name]
    ELSE IF ParsesAsInt(u_name)
         THEN [exc |-> "IllegalUsernameError", val |-> u_name]
    ELSE [exc |-> None, val |-> u_name]

validate_expense_cost(cost) ==
    LET f == float(cost)
    IN  IF f.exc # None
        THEN [exc |-> "IllegalExpenseCostError", val |-> Real(0, 1)]
        ELSE IF ~Positive(f.val)
        THEN [exc |-> "IllegalExpenseCostError", val |-> Real(0, 1)]
        ELSE [exc |-> None, val |-> f.val]

validate_expense_date(date) ==
    LET p == strptime(date)
    IN  IF p.exc # None THEN [exc |-> "IllegalExpenseDateError", val |-> date]
        ELSE IF p.val > Today
             THEN [exc |-> "IllegalExpenseDateError", val |-> date]
        ELSE [exc |-> None, val |-> date]

validate_expense_title(title) ==
    IF title # Strip(title)
    THEN [exc |-> "IllegalExpenseTitleError", val |-> title]
    ELSE IF title = <<>> \/ IsSpace(title)
         THEN [exc |-> "IllegalExpenseTitleError", val |-> title]
    ELSE [exc |-> None, val |-> title]

----------------------------------------------------------------------------
(* The database (create_database).  users is the table in u_id order: the  *)
(* user with u_id k is users[k] (users are never deleted).  expenses maps  *)
(* the e_id of each row to its other columns.  debts maps a d_expense to   *)
(* the d_debtor values of its rows in rowid order, and has no entry for a  *)
(* d_expense without rows: every query on debts selects by d_expense.      *)
(* seq_expenses is the AUTOINCREMENT counter of expenses (sqlite_sequence).*)

EmptyDb ==
    [ users            |-> << >>,
      expenses         |-> << >>,
      debts            |-> << >>,
      seq_expenses     |-> 0,
      settles          |-> << >>,
      expenses_settled |-> << >>,
      debts_settled    |-> << >> ]

\* f with key k set to v (k may be new)
Put(f, k, v) == [ x \in DOMAIN f \cup { k } |-> IF x = k THEN v ELSE f[x] ]

\* f without key k
Drop(f, k) == [ x \in DOMAIN f \ { k } |-> f[x] ]

get_users_dict(d) == d.users

\* users.values(), in the order of the SELECT
UserValues(d) == d.users

get_u_id(d, u_name) ==
    IF \E k \in DOMAIN d.users : d.users[k] = u_name
    THEN [exc |-> None,
          val |-> CHOOSE k \in DOMAIN d.users : d.users[k] = u_name]
    ELSE [exc |-> "UserNotFoundError", val |-> 0]

get_u_name(d, u_id) ==
    IF u_id \in DOMAIN d.users
    THEN [exc |-> None, val |-> d.users[u_id]]
    ELSE [exc |-> "UserNotFoundError", val |-> << >>]

validate_user_id(d, u_id) ==
    [exc |-> get_u_name(d, u_id).exc, val |-> u_id]

validate_expense_id(d, e_id) ==
    IF e_id \in DOMAIN d.expenses
    THEN [exc |-> None, val |-> e_id]
    ELSE [exc |-> "ExpenseNotFoundError", val |-> e_id]

get_expense(d, e_id) ==
    IF e_id \in DOMAIN d.expenses
    THEN [exc |-> None,
          val |-> [id |-> e_id, date |-> d.expenses[e_id].date,
                   title |-> d.expenses[e_id].title,
                   payer |-> d.expenses[e_id].payer,
                   cost |-> d.expenses[e_id].cost]]
    ELSE [exc |-> "ExpenseNotFoundError", val |-> << >>]

\* ORDER BY e_date: rows in the text order of e_date, equal dates in e_id order
ExpenseBefore(d, a, b) ==
    \/ StrLess(d.expenses[a].date, d.expenses[b].date)
    \/ d.expenses[a].date = d.expenses[b].date /\ a < b

RECURSIVE OrderByDate(_, _)
OrderByDate(d, ids) ==
    IF ids = {} THEN << >>
    ELSE LET first == CHOOSE a \in ids :
                         \A b \in ids \ { a } : ExpenseBefore(d, a, b)
         IN  << first >> \o OrderByDate(d, ids \ { first })

get_expenses(d) ==
    LET order == OrderByDate(d, DOMAIN d.expenses)
    IN  [ k \in DOMAIN order |->
            [id |-> order[k], date |-> d.expenses[order[k]].date,
             title |-> d.expenses[order[k]].title,
             payer |-> d.expenses[order[k]].payer,
             cost |-> d.expenses[order[k]].cost] ]

get_debtors(d, e_id) ==
    IF e_id \in DOMAIN d.debts THEN d.debts[e_id] ELSE << >>

\* get_debtors(cursor, e_id, u_name=True)
get_debtor_names(d, e_id) ==
    LET ds == get_debtors(d, e_id)
    IN  [ k \in DOMAIN ds |-> d.users[ds[k]] ]

----------------------------------------------------------------------------
(* Netting engine. *)

\* for debtor in debtors: cashers[expense['payer']][debtor] += share
RECURSIVE AddSharesToDebtor(_, _, _, _, _)
AddSharesToDebtor(cashers, payer, debtors, share, k) ==
    IF k > Len(debtors) THEN cashers
    ELSE AddSharesToDebtor([cashers EXCEPT ![debtors[k]][payer] = @ + share],
                           payer, debtors, share, k + 1)

RECURSIVE AddShares(_, _, _, _, _)
AddShares(cashers, payer, debtors, share, k) ==
    IF k > Len(debtors) THEN cashers
    ELSE AddShares([cashers EXCEPT ![payer][debtors[k]] = @ + share],
                   payer, debtors, share, k + 1)

\* for expense in get_expenses(cursor, u_name=True): ...   (from the k-th on)
RECURSIVE GrossLoop(_, _, _, _)
GrossLoop(d, cashers, expenses, k) ==
    IF k > Len(expenses) THEN [exc |-> None, val |-> cashers]
    ELSE LET expense == expenses[k]
             debtors == get_debtor_names(d, expense.id)
         IN  IF Len(debtors) = 0
             THEN [exc |-> "ZeroDivisionError", val |-> cashers]
             ELSE GrossLoop(d,
                      AddShares(cashers, d.users[expense.payer], debtors,
                                Units(expense.cost) \div Len(debtors), 1),
                      expenses, k + 1)

\* one pass of the body of the netting loops, for the pair (casher, payer)
NetPairSkipsEqual(cashers, casher, payer) ==
    LET c == Abs(cashers[casher][payer] - cashers[payer][casher])
    IN  IF cashers[casher][payer] > cashers[payer][casher]
        THEN [cashers EXCEPT ![casher][payer] = c, ![payer][casher] = 0]
        ELSE cashers

NetPairKeepsReverse(cashers, casher, payer) ==
    LET c == Abs(cashers[casher][payer] - cashers[payer][casher])
    IN  IF cashers[casher][payer] > cashers[payer][casher]
        THEN [cashers EXCEPT ![casher][payer] = c]
        ELSE IF cashers[casher][payer] = cashers[payer][casher]
        THEN [cashers EXCEPT ![casher][payer] = 0, ![payer][casher] = 0]
        ELSE cashers

NetPair(cashers, casher, payer) ==
    LET c == Abs(cashers[casher][payer] - cashers[payer][casher])
    IN  IF cashers[casher][payer] > cashers[payer][casher]
        THEN [cashers EXCEPT ![casher][payer] = c, ![payer][casher] = 0]
        ELSE IF cashers[casher][payer] = cashers[payer][casher]
        THEN [cashers EXCEPT ![casher][payer] = 0, ![payer][casher] = 0]
        ELSE cashers

\* for casher in users.values(): for payer in users.values(): ...
RECURSIVE NetLoop(_, _, _, _)
NetLoop(cashers, names, a, b) ==
    IF a > Len(names) THEN cashers
    ELSE IF b > Len(names) THEN NetLoop(cashers, names, a + 1, 1)
    ELSE NetLoop(NetPair(cashers, names[a], names[b]), names, a, b + 1)

\* [exc, val]: val[casher][payer] is what payer must pay to casher
get_status_dict(d, users) ==
    LET names == Range(users)
        zero  == [ casher \in names |-> [ payer \in names |-> 0 ] ]
        gross == GrossLoop(d, zero, get_expenses(d), 1)
    IN  IF gross.exc # None THEN gross
        ELSE [exc |-> None, val |-> NetLoop(gross.val, users, 1, 1)]

\* status.append((payer, casher, cashers[casher][payer]))
StatusEntrySwapped(cashers, casher, payer) ==
    << casher, payer, cashers[casher][payer] >>

StatusEntry(cashers, casher, payer) ==
    << payer, casher, cashers[casher][payer] >>

\* for casher in users.values(): for payer in users.values(): ...
RECURSIVE StatusLoop(_, _, _, _, _)
StatusLoop(status, cashers, names, a, b) ==
    IF a > Len(names) THEN status
    ELSE IF b > Len(names) THEN StatusLoop(status, cashers, names, a + 1, 1)
    ELSE StatusLoop(
             IF cashers[names[a]][names[b]] # 0
             THEN Append(status, StatusEntry(cashers, names[a], names[b]))
             ELSE status,
             cashers, names, a, b + 1)

\* the database after the statements get_status_list executes: the SELECTs
\* of get_users_dict, get_expenses and get_debtors
ReadLedgerConsuming(d) == [d EXCEPT !.debts = << >>]

ReadLedger(d) == d

\* [exc, val]: val is the list of (this user must pay, this user, this amount)
get_status_list(d) ==
    LET users   == get_users_dict(d)
        cashers == get_status_dict(d, users)
    IN  IF cashers.exc # None THEN [exc |-> cashers.exc, val |-> << >>]
        ELSE [exc |-> None,
              val |-> StatusLoop(<< >>, cashers.val, users, 1, 1)]

----------------------------------------------------------------------------
(* Ledger repository: the writes.  Each returns [db, exc]: the database    *)
(* the connection sees when the call returns or raises.                    *)

\* users.u_name declared without UNIQUE
insert_user_no_unique(d, u_name) ==
    LET v == validate_username(u_name)
    IN  IF v.exc # None THEN [db |-> d, exc |-> v.exc]
        ELSE [db |-> [d EXCEPT !.users = Append(@, v.val)], exc |-> None]

insert_user(d, u_name) ==
    LET v == validate_username(u_name)
    IN  IF v.exc # None THEN [db |-> d, exc |-> v.exc]
        ELSE IF v.val \in Range(d.users)           \* u_name TEXT NOT NULL UNIQUE
             THEN [db |-> d, exc |-> "IntegrityError"]
        ELSE [db |-> [d EXCEPT !.users = Append(@, v.val)], exc |-> None]

\* the user is deleted and inserted again under the new name
update_user_reinserts(d, old_u_name, new_u_name) ==
    LET v == validate_username(new_u_name)
    IN  IF v.exc # None THEN [db |-> d, exc |-> v.exc]
        ELSE IF old_u_name \notin Range(d.users)
             THEN [db |-> d, exc |-> "UserNotFoundError"]
        ELSE IF v.val # old_u_name /\ v.val \in Range(d.users)
             THEN [db |-> d, exc |-> "IntegrityError"]
        ELSE [db |-> [d EXCEPT !.users =
                        Append(OrderedSubSeq(@, { k \in DOMAIN @ :
                                                    @[k] # old_u_name }),
                               v.val)],
              exc |-> None]

update_user(d, old_u_name, new_u_name) ==
    LET v == validate_username(new_u_name)
    IN  IF v.exc # None THEN [db |-> d, exc |-> v.exc]
        ELSE IF old_u_name \notin Range(d.users)   \* cursor.rowcount == 0
             THEN [db |-> d, exc |-> "UserNotFoundError"]
        ELSE IF v.val # old_u_name /\ v.val \in Range(d.users)
             THEN [db |-> d, exc |-> "IntegrityError"]
        ELSE [db |-> [d EXCEPT !.users =
                        [ k \in DOMAIN @ |->
                            IF @[k] = old_u_name THEN v.val ELSE @[k] ]],
              exc |-> None]

\* [validate_user_id(cursor, debtor) for debtor in debtors]
ValidateDebtorsSkipped(d, debtors) == [exc |-> None, val |-> debtors]

ValidateDebtors(d, debtors) ==
    IF \E k \in DOMAIN debtors : validate_user_id(d, debtors[k]).exc # None
    THEN [exc |-> "UserNotFoundError", val |-> << >>]
    ELSE [exc |-> None, val |-> debtors]

\* e_id declared without AUTOINCREMENT: the row gets the largest e_id in
\* the table plus one
InsertExpenseRowReusing(d, cost, title, date, payer) ==
    LET rowid == IF DOMAIN d.expenses = {} THEN 1
                 ELSE 1 + CHOOSE a \in DOMAIN d.expenses :
                              \A b \in DOMAIN d.expenses : a >= b
    IN  [d EXCEPT !.expenses = Put(@, rowid, [cost |-> cost, title |-> title,
                                             date |-> date, payer |-> payer]),
                  !.seq_expenses = rowid]

\* INSERT INTO expenses ...: the row gets the next AUTOINCREMENT e_id
InsertExpenseRow(d, cost, title, date, payer) ==
    LET rowid == d.seq_expenses + 1
    IN  [d EXCEPT !.expenses = Put(@, rowid, [cost |-> cost, title |-> title,
                                             date |-> date, payer |-> payer]),
                  !.seq_expenses = rowid]

\* for debtor in debtors: INSERT INTO debts (d_expense, d_debtor) ...
InsertDebtsDistinct(d, e_id, debtors) ==
    LET kept == OrderedSubSeq(debtors,
                    { k \in DOMAIN debtors :
                        \A j \in 1 .. k - 1 : debtors[j] # debtors[k] })
    IN  IF kept = << >> THEN d
        ELSE [d EXCEPT !.debts = Put(@, e_id, get_debtors(d, e_id) \o kept)]

InsertDebts(d, e_id, debtors) ==
    IF debtors = << >> THEN d
    ELSE [d EXCEPT !.debts = Put(@, e_id, get_debtors(d, e_id) \o debtors)]

\* DELETE FROM debts WHERE d_expense=?
DeleteDebtsNot(d, e_id) == d

DeleteDebts(d, e_id) ==
    IF e_id \in DOMAIN d.debts THEN [d EXCEPT !.debts = Drop(@, e_id)] ELSE d

\* the INSERT of the expense is made before the debtors are validated
insert_expense_early_write(d, title, cost, date, payer, debtors) ==
    LET t == validate_expense_title(title)
        c == validate_expense_cost(cost)
        a == validate_expense_date(date)
        p == validate_user_id(d, payer)
        s == ValidateDebtors(d, debtors)
    IN  IF t.exc # None THEN [db |-> d, exc |-> t.exc]
        ELSE IF c.exc # None THEN [db |-> d, exc |-> c.exc]
        ELSE IF a.exc # None THEN [db |-> d, exc |-> a.exc]
        ELSE IF p.exc # None THEN [db |-> d, exc |-> p.exc]
        ELSE LET d1 == InsertExpenseRow(d, c.val, t.val, a.val, p.val)
             IN  IF s.exc # None THEN [db |-> d1, exc |-> s.exc]
                 ELSE [db |-> InsertDebts(d1, d1.seq_expenses, s.val),
                       exc |-> None]

insert_expense(d, title, cost, date, payer, debtors) ==
    LET t == validate_expense_title(title)
        c == validate_expense_cost(cost)
        a == validate_expense_date(date)
        p == validate_user_id(d, payer)
        s == ValidateDebtors(d, debtors)
    IN  IF t.exc # None THEN [db |-> d, exc |-> t.exc]
        ELSE IF c.exc # None THEN [db |-> d, exc |-> c.exc]
        ELSE IF a.exc # None THEN [db |-> d, exc |-> a.exc]
        ELSE IF p.exc # None THEN [db |-> d, exc |-> p.exc]
        ELSE IF s.exc # None THEN [db |-> d, exc |-> s.exc]
        ELSE LET d1 == InsertExpenseRow(d, c.val, t.val, a.val, p.val)
             IN  [db |-> InsertDebts(d1, d1.seq_expenses, s.val), exc |-> None]

\* UPDATE expenses SET e_title=?, e_cost=?, e_date=?, e_payer=? WHERE e_id=?
UpdateExpenseRow(d, e_id, title, cost, date, payer) ==
    [d EXCEPT !.expenses[e_id] = [cost |-> cost, title |-> title,
                                  date |-> date, payer |-> payer]]

update_expense(d, e_id, title, cost, date, payer, debtors) ==
    LET e == validate_expense_id(d, e_id)
        t == validate_expense_title(title)
        c == validate_expense_cost(cost)
        a == validate_expense_date(date)
        p == validate_user_id(d, payer)
        s == ValidateDebtors(d, debtors)
    IN  IF e.exc # None THEN [db |-> d, exc |-> e.exc]
        ELSE IF t.exc # None THEN [db |-> d, exc |-> t.exc]
        ELSE IF c.exc # None THEN [db |-> d, exc |-> c.exc]
        ELSE IF a.exc # None THEN [db |-> d, exc |-> a.exc]
        ELSE IF p.exc # None THEN [db |-> d, exc |-> p.exc]
        ELSE IF s.exc # None THEN [db |-> d, exc |-> s.exc]
        ELSE LET d1 == UpdateExpenseRow(d, e.val, t.val, c.val, a.val, p.val)
                 d2 == DeleteDebts(d1, e.val)
             IN  [db |-> InsertDebts(d2, e.val, s.val), exc |-> None]

----------------------------------------------------------------------------
(* Settlement: the statements of settle_expenses. *)

\* INSERT INTO settles (s_date) VALUES (?); s_id = cursor.lastrowid
InsertSettle(d, now) == [d EXCEPT !.settles = Append(@, now)]

\* SELECT e_id, e_cost, e_title, e_date, e_payer FROM expenses  (rowid order)
RECURSIVE SelectExpenses(_, _)
SelectExpenses(d, ids) ==
    IF ids = {} THEN << >>
    ELSE LET e == CHOOSE a \in ids : \A b \in ids : a <= b
         IN  << [e_id |-> e, e_cost |-> d.expenses[e].cost,
                 e_title |-> d.expenses[e].title,
                 e_date |-> d.expenses[e].date,
                 e_payer |-> d.expenses[e].payer] >>
             \o SelectExpenses(d, ids \ { e })

\* the INSERT overwriting the rows of expenses_settled
ArchiveExpenseRowReplacing(d, row, settle) ==
    [d EXCEPT !.expenses_settled =
        << [cost |-> row.e_cost, title |-> row.e_title,
            date |-> row.e_date, payer |-> row.e_payer,
            settle |-> settle] >>]

\* INSERT INTO expenses_settled ...; new_e_id = cursor.lastrowid
ArchiveExpenseRow(d, row, settle) ==
    [d EXCEPT !.expenses_settled =
        Append(@, [cost |-> row.e_cost, title |-> row.e_title,
                   date |-> row.e_date, payer |-> row.e_payer,
                   settle |-> settle])]

\* SELECT d_debtor FROM debts WHERE d_expense=?, each row into debts_settled
ArchiveDebtsOnce(d, e_id, new_e_id) ==
    LET debtors == get_debtors(d, e_id)
    IN  IF debtors = << >> THEN d
        ELSE [d EXCEPT !.debts_settled = Put(@, new_e_id, << debtors[1] >>)]

ArchiveDebts(d, e_id, new_e_id) ==
    LET debtors == get_debtors(d, e_id)
        had     == IF new_e_id \in DOMAIN d.debts_settled
                   THEN d.debts_settled[new_e_id] ELSE << >>
    IN  IF debtors = << >> THEN d
        ELSE [d EXCEPT !.debts_settled = Put(@, new_e_id, had \o debtors)]

\* DELETE FROM expenses WHERE e_id=?
DeleteExpenseRow(d, e_id) ==
    IF e_id \in DOMAIN d.expenses
    THEN [d EXCEPT !.expenses = Drop(@, e_id)] ELSE d

\* DELETE FROM expenses WHERE e_id=?; DELETE FROM debts WHERE d_expense=?
DeleteSettledRowOnly(d, e_id) == DeleteExpenseRow(d, e_id)

DeleteSettled(d, e_id) == DeleteDebts(DeleteExpenseRow(d, e_id), e_id)

\* whether the connection commits between the statements of settle_expenses
AutoCommitOn == TRUE

AutoCommit == FALSE

----------------------------------------------------------------------------
(* The prompts.  stdin is the sequence of the lines typed, k the next line *)
(* to read; a read returns [exc, val, at], at being the line read last,    *)
(* and input() at the end of stdin raises EOFError.                        *)

\* s.split(c)
RECURSIVE Split(_, _)
Split(s, c) ==
    IF IndexOf(s, c) = 0 THEN << s >>
    ELSE << SubSeq(s, 1, IndexOf(s, c) - 1) >>
             \o Split(SubSeq(s, IndexOf(s, c) + 1, Len(s)), c)

RECURSIVE read_expense_title(_, _)
read_expense_title(stdin, k) ==
    IF k > Len(stdin) THEN [exc |-> "EOFError", val |-> << >>, at |-> k]
    ELSE IF validate_expense_title(Strip(stdin[k])).exc # None
    THEN read_expense_title(stdin, k + 1)
    ELSE [exc |-> None, val |-> Strip(stdin[k]), at |-> k]

RECURSIVE read_expense_cost(_, _)
read_expense_cost(stdin, k) ==
    IF k > Len(stdin) THEN [exc |-> "EOFError", val |-> << >>, at |-> k]
    ELSE IF validate_expense_cost(stdin[k]).exc # None
    THEN read_expense_cost(stdin, k + 1)
    ELSE [exc |-> None, val |-> stdin[k], at |-> k]

RECURSIVE read_expense_date(_, _)
read_expense_date(stdin, k) ==
    IF k > Len(stdin) THEN [exc |-> "EOFError", val |-> << >>, at |-> k]
    ELSE IF validate_expense_date(stdin[k]).exc # None
    THEN read_expense_date(stdin, k + 1)
    ELSE [exc |-> None, val |-> stdin[k], at |-> k]

RECURSIVE read_username(_, _, _)
read_username(d, stdin, k) ==
    IF k > Len(stdin) THEN [exc |-> "EOFError", val |-> 0, at |-> k]
    ELSE IF get_u_id(d, stdin[k]).exc # None
    THEN read_username(d, stdin, k + 1)
    ELSE [exc |-> None, val |-> get_u_id(d, stdin[k]).val, at |-> k]

\* for user in [u.strip() for u in line.split(',')]: ...   (from the j-th
\* on), got being [users, errors]
RECURSIVE AppendUserIds(_, _, _, _)
AppendUserIds(d, names, j, got) ==
    IF j > Len(names) THEN got
    ELSE IF get_u_id(d, Strip(names[j])).exc # None
    THEN AppendUserIds(d, names, j + 1,
                       [got EXCEPT !.errors = @ + 1])
    ELSE AppendUserIds(d, names, j + 1,
                       [got EXCEPT !.users =
                           Append(@, get_u_id(d, Strip(names[j])).val)])

\* while not valid: ...   with the list users as it is on entry to the loop
\* body
RECURSIVE ReadUsernamesLoop(_, _, _, _)
ReadUsernamesLoop(d, stdin, k, users) ==
    IF k > Len(stdin) THEN [exc |-> "EOFError", val |-> users, at |-> k]
    ELSE IF AppendUserIds(d, Split(stdin[k], ","), 1,
                          [users |-> users, errors |-> 0]).errors # 0
    THEN ReadUsernamesLoop(d, stdin, k + 1,
             AppendUserIds(d, Split(stdin[k], ","), 1,
                           [users |-> users, errors |-> 0]).users)
    ELSE [exc |-> None,
          val |-> AppendUserIds(d, Split(stdin[k], ","), 1,
                                [users |-> users, errors |-> 0]).users,
          at |-> k]

read_usernames(d, stdin, k) == ReadUsernamesLoop(d, stdin, k, << >>)

\* s.lower()
LowerText(s) == [ k \in DOMAIN s |-> Lower(s[k]) ]

\* confirm(prompt, default_y) from line k of stdin on
RECURSIVE confirm(_, _, _)
confirm(stdin, k, default_y) ==
    IF k > Len(stdin) THEN [exc |-> "EOFError", val |-> FALSE, at |-> k]
    ELSE IF LowerText(Strip(stdin[k]))
                \notin { << >>, <<"y">>, <<"y", "e", "s">>,
                         <<"n">>, <<"n", "o">> }
    THEN confirm(stdin, k + 1, default_y)
    ELSE [exc |-> None,
          val |-> IF default_y
                  THEN stdin[k] \in { << >>, <<"y">>, <<"y", "e", "s">> }
                  ELSE stdin[k] \in { <<"y">>, <<"y", "e", "s">> },
          at |-> k]

\* add_expense() up to connection.commit(): [db, exc]
AddExpenseFrom(d, stdin, title, cost, date, payer) ==
    IF read_usernames(d, stdin, payer.at + 1).exc # None
    THEN [db |-> d, exc |-> read_usernames(d, stdin, payer.at + 1).exc]
    ELSE insert_expense(d, title.val, cost.val, date.val, payer.val,
                        read_usernames(d, stdin, payer.at + 1).val)

add_expense(d, stdin) ==
    LET title == read_expense_title(stdin, 1)
        cost  == read_expense_cost(stdin, title.at + 1)
        date  == read_expense_date(stdin, cost.at + 1)
        payer == read_username(d, stdin, date.at + 1)
    IN  IF payer.exc # None THEN [db |-> d, exc |-> "EOFError"]
        ELSE AddExpenseFrom(d, stdin, title, cost, date, payer)

----------------------------------------------------------------------------
(* The state machine.  A caller runs one operation at a time on its        *)
(* connection and commits after it, as the commands and the tests do; a    *)
(* call that raised leaves pc = "raised".                                  *)

Boundary == pc \in { "idle", "raised", "settled", "aborted", "status" }

\* no call of get_status_list has returned to the command in hand
NoResult == [exc |-> "NoResult", val |-> << >>]

Settling == pc \in { "copy", "delete", "commit" }

Init ==
    /\ db = EmptyDb
    /\ committed = EmptyDb
    /\ pc = "idle"
    /\ s_id = 0
    /\ rows = << >>
    /\ i = 0
    /\ status_ret = NoResult

\* r is the [db, exc] of a write; connection.commit() follows
Returns(r) ==
    /\ db' = r.db
    /\ committed' = r.db
    /\ pc' = IF r.exc = None THEN "idle" ELSE "raised"
    /\ status_ret' = NoResult
    /\ UNCHANGED <<s_id, rows, i>>

InsertUser ==
    /\ Boundary
    /\ Len(db.users) < MaxUserId
    /\ \E u_name \in UserNames : Returns(insert_user(db, u_name))

UpdateUser ==
    /\ Boundary
    /\ \E old \in UserNames, new \in UserNames :
          Returns(update_user(db, old, new))

InsertExpense ==
    /\ Boundary
    /\ db.seq_expenses < MaxExpenses
    /\ \E a \in ExpenseArgs :
          Returns(insert_expense(db, a[1], a[2], a[3], a[4], a[5]))

UpdateExpense ==
    /\ Boundary
    /\ \E u \in UpdateArgs :
          Returns(update_expense(db, u[1], u[2][1], u[2][2], u[2][3],
                                 u[2][4], u[2][5]))

\* a caller reads an expense that is not in the ledger, as edit_expenses
\* does: get_expense raises, nothing is written or committed
GetMissing ==
    /\ Boundary
    /\ \E e_id \in 1 .. NoExpense :
          get_expense(ReadLedger(db), e_id).exc # None
    /\ db' = ReadLedger(db)
    /\ pc' = "raised"
    /\ status_ret' = NoResult
    /\ UNCHANGED <<committed, s_id, rows, i>>

\* status(): get_status_list, whose statements are SELECTs, and no commit
Status ==
    /\ Boundary
    /\ LET r == get_status_list(db)
       IN  /\ pc' = IF r.exc = None THEN "status" ELSE "raised"
           /\ status_ret' = IF r.exc = None THEN r ELSE NoResult
    /\ db' = ReadLedger(db)
    /\ UNCHANGED <<committed, s_id, rows, i>>

\* settle(): get_status_list raises, and the command ends with nothing written
SettleStatusRaises ==
    /\ Boundary
    /\ get_status_list(db).exc # None
    /\ pc' = "raised"
    /\ status_ret' = NoResult
    /\ UNCHANGED <<db, committed, s_id, rows, i>>

\* settle(): confirm() returns False
SettleDeclined ==
    /\ Boundary
    /\ get_status_list(db).exc = None
    /\ pc' = "idle"
    /\ status_ret' = NoResult
    /\ UNCHANGED <<db, committed, s_id, rows, i>>

\* settle() once confirm() returned True, or another caller of
\* settle_expenses: settle_expenses up to its loop
SettleBeginWithin(max) ==
    /\ Boundary
    /\ Len(db.settles) < max
    /\ \E now \in Timestamps :
          /\ db' = InsertSettle(db, now)
          /\ s_id' = Len(db.settles) + 1
    /\ rows' = SelectExpenses(db, DOMAIN db.expenses)
    /\ i' = 1
    /\ pc' = IF DOMAIN db.expenses = {} THEN "commit" ELSE "copy"
    /\ committed' = IF AutoCommit THEN db' ELSE committed
    /\ status_ret' = NoResult

SettleBegin == SettleBeginWithin(MaxSettles)

\* the loop body up to the copies into expenses_settled and debts_settled
SettleCopy ==
    /\ pc = "copy"
    /\ LET d1 == ArchiveExpenseRow(db, rows[i], s_id)
       IN  db' = ArchiveDebts(d1, rows[i].e_id, Len(d1.expenses_settled))
    /\ pc' = "delete"
    /\ committed' = IF AutoCommit THEN db' ELSE committed
    /\ UNCHANGED <<s_id, rows, i, status_ret>>

\* the two DELETEs that end the loop body
SettleDelete ==
    /\ pc = "delete"
    /\ db' = DeleteSettled(db, rows[i].e_id)
    /\ i' = i + 1
    /\ pc' = IF i = Len(rows) THEN "commit" ELSE "copy"
    /\ committed' = IF AutoCommit THEN db' ELSE committed
    /\ UNCHANGED <<s_id, rows, status_ret>>

\* settle(): connection.commit(); connection.close()
SettleCommit ==
    /\ pc = "commit"
    /\ committed' = db
    /\ pc' = "settled"
    /\ s_id' = 0
    /\ rows' = << >>
    /\ i' = 0
    /\ UNCHANGED <<db, status_ret>>

\* a statement of settle_expenses, or the commit, fails: the exception ends
\* settle() before connection.commit(), and the open transaction is lost
SettleFails ==
    /\ Settling
    /\ db' = committed
    /\ pc' = "aborted"
    /\ s_id' = 0
    /\ rows' = << >>
    /\ i' = 0
    /\ UNCHANGED <<committed, status_ret>>

\* add_expense and edit_expenses with the arguments of ListArgs
InsertListed ==
    /\ Boundary
    /\ db.seq_expenses < MaxExpenses
    /\ \E a \in ListArgs :
          Returns(insert_expense(db, a[1], a[2], a[3], a[4], a[5]))

UpdateListed ==
    /\ Boundary
    /\ \E e_id \in 1 .. MaxExpenses, a \in ListArgs :
          Returns(update_expense(db, e_id, a[1], a[2], a[3], a[4], a[5]))

Next ==
    \/ InsertUser
    \/ UpdateUser
    \/ InsertExpense
    \/ UpdateExpense
    \/ GetMissing
    \/ Status
    \/ SettleStatusRaises
    \/ SettleDeclined
    \/ SettleBegin
    \/ SettleCopy
    \/ SettleDelete
    \/ SettleCommit
    \/ SettleFails

Spec == Init /\ [][Next]_vars

\* add_users and add_expense in the scenario of test_get_status_list: one
\* more user and one more expense than in Spec
InsertScenarioUser ==
    /\ Boundary
    /\ Len(db.users) < MaxUserId + 1
    /\ \E u_name \in UserNames : Returns(insert_user(db, u_name))

InsertScenarioExpense ==
    /\ Boundary
    /\ db.seq_expenses < MaxExpenses + 1
    /\ \E a \in ScenarioArgs :
          Returns(insert_expense(db, a[1], a[2], a[3], a[4], a[5]))

NextScenario ==
    \/ InsertScenarioUser
    \/ InsertScenarioExpense
    \/ Status

SpecScenario == Init /\ [][NextScenario]_vars

\* add_expense and edit_expenses with the arguments of CostedArgs
InsertCosted ==
    /\ Boundary
    /\ db.seq_expenses < MaxExpenses
    /\ \E a \in CostedArgs :
          Returns(insert_expense(db, a[1], a[2], a[3], a[4], a[5]))

UpdateCosted ==
    /\ Boundary
    /\ \E e_id \in 1 .. MaxExpenses, a \in CostedArgs :
          Returns(update_expense(db, e_id, a[1], a[2], a[3], a[4], a[5]))

\* the ledger under expenses that differ in their costs
NextCost ==
    \/ InsertUser
    \/ InsertCosted
    \/ UpdateCosted

SpecCost == Init /\ [][NextCost]_vars

\* add_expense and edit_expenses with the arguments of ArchiveArgs
InsertArchived ==
    /\ Boundary
    /\ db.seq_expenses < MaxExpenses
    /\ \E a \in ArchiveArgs :
          Returns(insert_expense(db, a[1], a[2], a[3], a[4], a[5]))

UpdateArchived ==
    /\ Boundary
    /\ \E e_id \in 1 .. MaxExpenses, a \in ArchiveArgs :
          Returns(update_expense(db, e_id, a[1], a[2], a[3], a[4], a[5]))

\* settle() when the ledger may have been settled before
SettleAgain == SettleBeginWithin(MaxSettles + 1)

\* the ledger under settlements that follow one another
NextArchive ==
    \/ InsertUser
    \/ InsertArchived
    \/ UpdateArchived
    \/ SettleAgain
    \/ SettleCopy
    \/ SettleDelete
    \/ SettleCommit
    \/ SettleFails

SpecArchive == Init /\ [][NextArchive]_vars

\* add_expense() with the lines of ExpenseStdins typed at its prompts
AddExpense ==
    /\ Boundary
    /\ db.seq_expenses < MaxExpenses
    /\ \E stdin \in ExpenseStdins : Returns(add_expense(db, stdin))

\* settle() with the lines of AnswerStdins typed at its prompt, up to the
\* loop of settle_expenses: input() raises, confirm returns False, or
\* confirm returns True
SettleAnswered ==
    /\ Boundary
    /\ get_status_list(db).exc = None
    /\ \E stdin \in AnswerStdins :
          \/ /\ confirm(stdin, 1, FALSE).exc # None
             /\ pc' = "raised"
             /\ status_ret' = NoResult
             /\ UNCHANGED <<db, committed, s_id, rows, i>>
          \/ /\ confirm(stdin, 1, FALSE).exc = None
             /\ ~confirm(stdin, 1, FALSE).val
             /\ SettleDeclined
          \/ /\ confirm(stdin, 1, FALSE).exc = None
             /\ confirm(stdin, 1, FALSE).val
             /\ SettleBegin

\* the ledger under the commands that prompt
NextPrompt ==
    \/ InsertUser
    \/ AddExpense
    \/ SettleAnswered
    \/ SettleCopy
    \/ SettleDelete
    \/ SettleCommit

SpecPrompt == Init /\ [][NextPrompt]_vars

\* add_users and edit_user with the names of NameTexts
InsertNamed ==
    /\ Boundary
    /\ Len(db.users) < MaxUserId
    /\ \E u_name \in NameTexts : Returns(insert_user(db, u_name))

UpdateNamed ==
    /\ Boundary
    /\ \E old \in NameTexts, new \in NameTexts :
          Returns(update_user(db, old, new))

\* the users under names that differ in their form
NextNames ==
    \/ InsertNamed
    \/ UpdateNamed

SpecNames == Init /\ [][NextNames]_vars

\* the ledger under expenses that differ in their dates
NextList ==
    \/ InsertUser
    \/ InsertListed
    \/ UpdateListed
    \/ SettleBegin
    \/ SettleCopy
    \/ SettleDelete
    \/ SettleCommit

SpecList == Init /\ [][NextList]_vars

----------------------------------------------------------------------------
(* What the claims speak of. *)

Max(a, b) == IF a >= b THEN a ELSE b

\* how often x occurs in the list s
Occurrences(s, x) == Cardinality({ k \in DOMAIN s : s[k] = x })

RECURSIVE Sum(_, _)
Sum(f, S) == IF S = {} THEN 0
             ELSE LET x == CHOOSE y \in S : TRUE
                  IN  f[x] + Sum(f, S \ { x })

\* gross[x][y] in units of 1/Scale, x and y being u_ids: over every live
\* expense paid by x, cost/|D| times the occurrences of y in its debtors D
Gross(d, x, y) ==
    LET paid == { e \in DOMAIN d.expenses :
                    d.expenses[e].payer = x /\ get_debtors(d, e) # << >> }
    IN  Sum([ e \in paid |->
                (Units(d.expenses[e].cost) * Occurrences(get_debtors(d, e), y))
                    \div Len(get_debtors(d, e)) ],
            paid)

\* what y still owes x
Net(d, x, y) == IF x = y THEN 0 ELSE Max(0, Gross(d, x, y) - Gross(d, y, x))

UserIdsOf(d) == DOMAIN d.users

\* C1: whenever get_status_dict returns a balance sheet, for all users x and
\* y its entry [x][y] is max(0, gross[x][y] - gross[y][x]) when x # y and 0
\* when x = y, gross being the exact sum of the shares of the live expenses.
C1_BalanceSheetIsNet ==
    Boundary =>
        LET r == get_status_dict(db, get_users_dict(db))
        IN  r.exc = None =>
                /\ DOMAIN r.val = Range(db.users)
                /\ \A x \in UserIdsOf(db), y \in UserIdsOf(db) :
                      r.val[db.users[x]][db.users[y]] = Net(db, x, y)

\* a sheet is returned for a ledger in which two users owe each other
\* different amounts, and one has paid a share of their own
C1_Witness ==
    /\ Boundary
    /\ get_status_dict(db, get_users_dict(db)).exc = None
    /\ \E x \in UserIdsOf(db), y \in UserIdsOf(db) :
          /\ x # y
          /\ Gross(db, x, y) > Gross(db, y, x)
          /\ Gross(db, y, x) > 0
          /\ Gross(db, x, x) > 0

\* C2: the list get_status_list returns holds exactly one triple (debtor,
\* creditor, amount) for every ordered pair of distinct users whose net
\* amount is not zero, the amount being what the debtor still owes the
\* creditor; no amount is zero or negative, no triple pairs a user with
\* itself, and no pair is listed twice.
C2_StatusListIsNonZeroNets ==
    Boundary =>
        LET r == get_status_list(db)
        IN  r.exc = None =>
                /\ \A k \in DOMAIN r.val :
                      /\ r.val[k][3] > 0
                      /\ r.val[k][1] # r.val[k][2]
                /\ \A j \in DOMAIN r.val, k \in DOMAIN r.val :
                      (r.val[j][1] = r.val[k][1] /\ r.val[j][2] = r.val[k][2])
                          => j = k
                /\ \A x \in UserIdsOf(db), y \in UserIdsOf(db) :
                      IF Net(db, x, y) # 0
                      THEN \E k \in DOMAIN r.val :
                              r.val[k] = << db.users[y], db.users[x],
                                            Net(db, x, y) >>
                      ELSE \A k \in DOMAIN r.val :
                              ~(r.val[k][1] = db.users[y]
                                /\ r.val[k][2] = db.users[x])

\* a list of one triple is returned although both users paid for each other
C2_Witness ==
    /\ Boundary
    /\ get_status_list(db).exc = None
    /\ Len(get_status_list(db).val) = 1
    /\ \A x \in UserIdsOf(db), y \in UserIdsOf(db) : Gross(db, x, y) > 0

\* C3: in the sheet get_status_dict returns, for any two users x and y the
\* entries [x][y] and [y][x] are never both non-zero.
C3_NettingSymmetry ==
    Boundary =>
        LET r == get_status_dict(db, get_users_dict(db))
        IN  r.exc = None =>
                \A x \in Range(db.users), y \in Range(db.users) :
                    x # y => (r.val[x][y] = 0 \/ r.val[y][x] = 0)

\* a sheet is returned for a ledger in which two users have paid the same
\* amount for each other
C3_Witness ==
    /\ Boundary
    /\ get_status_dict(db, get_users_dict(db)).exc = None
    /\ \E x \in UserIdsOf(db), y \in UserIdsOf(db) :
          /\ x # y
          /\ Gross(db, x, y) > 0
          /\ Gross(db, y, x) = Gross(db, x, y)

\* the archive: settlement events, archived expenses, archived shares
Archive(d) == << d.settles, d.expenses_settled, d.debts_settled >>

\* the lists s and t hold the same entries, each as often
SameBag(s, t) ==
    /\ Len(s) = Len(t)
    /\ \A x \in Range(s) \cup Range(t) : Occurrences(s, x) = Occurrences(t, x)

archived_debtors(d, e_id) ==
    IF e_id \in DOMAIN d.debts_settled THEN d.debts_settled[e_id] ELSE << >>

\* C4: once settle() has committed, get_expenses returns the empty list, no
\* row is left in debts and get_status_list returns the empty list.
C4_SettledLedgerIsEmpty ==
    pc = "settled" =>
        /\ get_expenses(db) = << >>
        /\ DOMAIN db.debts = {}
        /\ get_status_list(db) = [exc |-> None, val |-> << >>]
        /\ committed = db

\* settle() has committed a settlement of two expenses with shares
C4_Witness ==
    /\ pc = "settled"
    /\ Len(db.expenses_settled) = 2
    /\ \A k \in 1 .. 2 : archived_debtors(db, k) # << >>

\* C5: when settle_expenses returns, the store it started from being the
\* committed one, there is exactly one new settlement event S, and the
\* archived expenses of S are the expenses that were live: one for each, new
\* in the archive, with its title, cost, date and payer, and carrying its
\* debtors (each as often) and nothing else.
C5_SettleArchivesTheLiveLedger ==
    pc = "commit" =>
        LET live == DOMAIN committed.expenses
            new  == { k \in DOMAIN db.expenses_settled :
                        db.expenses_settled[k].settle = s_id }
        IN  /\ Len(db.settles) = Len(committed.settles) + 1
            /\ s_id = Len(db.settles)
            /\ new \cap DOMAIN committed.expenses_settled = {}
            /\ DOMAIN db.expenses_settled
                   = DOMAIN committed.expenses_settled \cup new
            /\ DOMAIN db.debts_settled
                   \subseteq DOMAIN committed.debts_settled \cup new
            /\ \E f \in [ live -> new ] :
                  /\ \A a \in live, b \in live : f[a] = f[b] => a = b
                  /\ \A k \in new : \E a \in live : f[a] = k
                  /\ \A a \in live :
                        /\ db.expenses_settled[f[a]] =
                              [cost   |-> committed.expenses[a].cost,
                               title  |-> committed.expenses[a].title,
                               date   |-> committed.expenses[a].date,
                               payer  |-> committed.expenses[a].payer,
                               settle |-> s_id]
                        /\ SameBag(archived_debtors(db, f[a]),
                                   get_debtors(committed, a))

\* settle_expenses has archived two expenses, one of them with a debtor
\* listed twice, the other with different fields and another debtor list
C5_Witness ==
    /\ pc = "commit"
    /\ Len(rows) = 2
    /\ rows[1].e_title # rows[2].e_title
    /\ \E k \in 1 .. 2 : \E x \in UserIdsOf(db) :
          Occurrences(archived_debtors(db, k), x) = 2
    /\ ~SameBag(archived_debtors(db, 1), archived_debtors(db, 2))

\* every expense ever created is, in the store d, either live or archived:
\* the k-th expense created is the k-th archived
ExactlyOnce(d) ==
    \A k \in 1 .. d.seq_expenses :
        (k \in DOMAIN d.expenses) # (k \in DOMAIN d.expenses_settled)

\* C6: settle() is atomic on the committed store: no step of settle_expenses
\* and no failure of it changes the committed store, a failure leaves the
\* store as committed before the call, and in every committed store each
\* expense is either live or archived, never both and never neither.
C6_SettleIsAtomic ==
    /\ [](ExactlyOnce(committed)
          /\ DOMAIN committed.debts \subseteq DOMAIN committed.expenses
          /\ DOMAIN committed.debts_settled
                 \subseteq DOMAIN committed.expenses_settled)
    /\ [][ /\ (Settling' \/ pc' = "aborted") => committed' = committed
           /\ pc' = "aborted" => db' = committed
         ]_vars

\* settle_expenses failed on a ledger of two live expenses, and the store is
\* the one committed before the call: both live, nothing archived
C6_Witness ==
    /\ pc = "aborted"
    /\ Cardinality(DOMAIN db.expenses) = 2
    /\ db.expenses_settled = << >>
    /\ db.settles = << >>
    /\ db = committed

\* the exceptions insert_expense and update_expense raise
ExpenseErrors ==
    { "IllegalExpenseTitleError", "IllegalExpenseCostError",
      "IllegalExpenseDateError", "UserNotFoundError", "ExpenseNotFoundError" }

\* C7: whenever insert_expense or update_expense raises, the database is as
\* before the call (users, live expenses, shares, archive), so a commit by
\* the caller afterwards writes nothing of the failed call.
C7_FailedWriteChangesNothing ==
    Boundary =>
        /\ \A a \in ExpenseArgs :
              LET r == insert_expense(db, a[1], a[2], a[3], a[4], a[5])
              IN  /\ r.exc \in ExpenseErrors \cup { None }
                  /\ r.exc # None => r.db = db
        /\ \A u \in UpdateArgs :
              LET r == update_expense(db, u[1], u[2][1], u[2][2], u[2][3],
                                      u[2][4], u[2][5])
              IN  /\ r.exc \in ExpenseErrors \cup { None }
                  /\ r.exc # None => r.db = db

\* a call has raised on a ledger with a live expense, on which each of the
\* errors can be raised, UserNotFoundError by a debtor after a known payer
C7_Witness ==
    /\ pc = "raised"
    /\ DOMAIN db.expenses # {}
    /\ committed = db
    /\ \A err \in ExpenseErrors :
          \E u \in UpdateArgs :
              update_expense(db, u[1], u[2][1], u[2][2], u[2][3],
                             u[2][4], u[2][5]).exc = err
    /\ \E a \in ExpenseArgs :
          /\ validate_user_id(db, a[4]).exc = None
          /\ insert_expense(db, a[1], a[2], a[3], a[4], a[5]).exc
                 = "UserNotFoundError"

\* the store d2 differs from d1 at most in the live expense e and its shares
SameButExpense(d1, d2, e) ==
    /\ d2.users = d1.users
    /\ Archive(d2) = Archive(d1)
    /\ DOMAIN d2.expenses \ { e } = DOMAIN d1.expenses \ { e }
    /\ DOMAIN d2.debts \ { e } = DOMAIN d1.debts \ { e }
    /\ \A x \in DOMAIN d1.expenses \ { e } : d2.expenses[x] = d1.expenses[x]
    /\ \A x \in DOMAIN d1.debts \ { e } : d2.debts[x] = d1.debts[x]

\* C8: a successful insert_expense(title, cost, date, payer, debtors) adds
\* one live expense with an id no expense ever had and the given title, cost,
\* date and payer, and one share per entry of debtors, entries given twice
\* kept twice; the other expenses and shares, the users and the archive are
\* unchanged.
C8_InsertAddsOneExpense ==
    Boundary =>
        \A a \in ExpenseArgs :
            LET r == insert_expense(db, a[1], a[2], a[3], a[4], a[5])
                n == r.db.seq_expenses
            IN  r.exc = None =>
                    /\ n > db.seq_expenses
                    /\ n \notin DOMAIN db.expenses \cup DOMAIN db.debts
                    /\ DOMAIN r.db.expenses = DOMAIN db.expenses \cup { n }
                    /\ r.db.expenses[n] = [cost |-> float(a[2]).val, title |-> a[1],
                                           date |-> a[3], payer |-> a[4]]
                    /\ SameBag(get_debtors(r.db, n), a[5])
                    /\ SameButExpense(db, r.db, n)

\* the expense added last has a debtor listed twice and is live beside an
\* older expense with shares
C8_Witness ==
    /\ pc = "idle"
    /\ db.seq_expenses \in DOMAIN db.expenses
    /\ \E x \in UserIdsOf(db) :
          Occurrences(get_debtors(db, db.seq_expenses), x) = 2
    /\ \E e \in DOMAIN db.debts : e < db.seq_expenses

\* C9: a successful update_expense(e_id, title, cost, date, payer, debtors)
\* keeps the expense e_id, sets its title, cost, date and payer to the given
\* ones and makes its shares the entries of debtors, each as often as given;
\* no expense is added or removed, and the other expenses and shares, the
\* users and the archive are unchanged.
C9_UpdateReplacesOneExpense ==
    Boundary =>
        \A u \in UpdateArgs :
            LET e_id == u[1]
                a    == u[2]
                r    == update_expense(db, e_id, a[1], a[2], a[3], a[4], a[5])
            IN  r.exc = None =>
                    /\ e_id \in DOMAIN db.expenses
                    /\ DOMAIN r.db.expenses = DOMAIN db.expenses
                    /\ r.db.seq_expenses = db.seq_expenses
                    /\ r.db.expenses[e_id] = [cost |-> float(a[2]).val, title |-> a[1],
                                              date |-> a[3], payer |-> a[4]]
                    /\ SameBag(get_debtors(r.db, e_id), a[5])
                    /\ SameButExpense(db, r.db, e_id)

\* an expense with two debtors can be updated to other fields and one other
\* debtor, beside another live expense with shares
C9_Witness ==
    /\ pc = "idle"
    /\ \E e_id \in DOMAIN db.expenses, other \in DOMAIN db.debts,
          a \in ExpenseArgs :
          /\ other # e_id
          /\ Len(get_debtors(db, e_id)) = 2
          /\ Len(a[5]) = 1
          /\ a[5][1] \notin Range(get_debtors(db, e_id))
          /\ a[1] # db.expenses[e_id].title
          /\ a[4] # db.expenses[e_id].payer
          /\ update_expense(db, e_id, a[1], a[2], a[3], a[4], a[5]).exc = None

\* C10 (as claimed): every live expense has at least one share, and
\* get_status_list returns a result, in every state that successful
\* insert_expense, update_expense and settle calls reach.
C10_EveryExpenseHasAShare ==
    Boundary =>
        /\ \A e \in DOMAIN db.expenses : get_debtors(db, e) # << >>
        /\ get_status_list(db).exc = None

\* the users the rows of the live ledger and of the archive refer to
ReferencedUsers(d) ==
    { d.expenses[e].payer : e \in DOMAIN d.expenses }
        \cup UNION { Range(d.debts[e]) : e \in DOMAIN d.debts }
        \cup { d.expenses_settled[k].payer : k \in DOMAIN d.expenses_settled }
        \cup UNION { Range(d.debts_settled[k]) : k \in DOMAIN d.debts_settled }

\* C11: in every reachable state, also inside settle_expenses, the payer of
\* every live and archived expense and the debtor of every live and archived
\* share is the u_id of an existing user, and no step removes a user: every
\* u_id that exists before a step exists after it.
C11_ReferentialIntegrity ==
    /\ [](ReferencedUsers(db) \subseteq UserIdsOf(db)
            /\ ReferencedUsers(committed) \subseteq UserIdsOf(committed))
    /\ [][UserIdsOf(db) \subseteq UserIdsOf(db')
            /\ UserIdsOf(committed) \subseteq UserIdsOf(committed')]_vars

\* an archived expense of user 1 has user 2 as a debtor, and a live expense
\* of user 2, entered after the settlement, has user 1 as a debtor
C11_Witness ==
    /\ pc = "idle"
    /\ Len(db.users) = 2
    /\ \E k \in DOMAIN db.expenses_settled :
          db.expenses_settled[k].payer = 1
              /\ 2 \in Range(archived_debtors(db, k))
    /\ \E e \in DOMAIN db.expenses :
          db.expenses[e].payer = 2 /\ 1 \in Range(get_debtors(db, e))

\* no two users of d have the same name
UniqueNames(d) ==
    \A j \in DOMAIN d.users, k \in DOMAIN d.users :
        d.users[j] = d.users[k] => j = k

\* C12: user names are unique in every reachable state; insert_user with a
\* name a user has, and update_user of a user to the name of another user,
\* raise sqlite3.IntegrityError (the store's duplicate-user error) and leave
\* the store, so the user set, as it was.
C12_UserNamesAreUnique ==
    /\ UniqueNames(db)
    /\ UniqueNames(committed)
    /\ Boundary =>
          /\ \A n \in Range(db.users) :
                insert_user(db, n) = [db |-> db, exc |-> "IntegrityError"]
          /\ \A old \in Range(db.users), new \in Range(db.users) :
                old # new =>
                    update_user(db, old, new)
                        = [db |-> db, exc |-> "IntegrityError"]

\* a call raised on a store of two users, where renaming either to the
\* other's name and creating either again are duplicates
C12_Witness ==
    /\ pc = "raised"
    /\ Len(db.users) = 2
    /\ insert_user(db, db.users[2]).exc = "IntegrityError"
    /\ update_user(db, db.users[1], db.users[2]).exc = "IntegrityError"

\* the name n after the renaming of old to new
Renamed(n, old, new) == IF n = old THEN new ELSE n

\* d2 is d with the one user called old renamed to new and nothing else
\* changed, and the balances of d2 are those of d under the new name
RenamedOnly(d, d2, old, new) ==
    /\ Cardinality({ k \in DOMAIN d.users : d.users[k] = old }) = 1
    /\ DOMAIN d2.users = DOMAIN d.users
    /\ \A k \in DOMAIN d.users : d2.users[k] = Renamed(d.users[k], old, new)
    /\ d2 = [d EXCEPT !.users = d2.users]
    /\ LET b  == get_status_dict(d, get_users_dict(d))
           b2 == get_status_dict(d2, get_users_dict(d2))
           l  == get_status_list(d)
           l2 == get_status_list(d2)
       IN  /\ b2.exc = b.exc
           /\ l2.exc = l.exc
           /\ b.exc = None =>
                 \A x \in Range(d.users), y \in Range(d.users) :
                     b2.val[Renamed(x, old, new)][Renamed(y, old, new)]
                         = b.val[x][y]
           /\ l.exc = None =>
                 /\ Len(l2.val) = Len(l.val)
                 /\ \A k \in DOMAIN l.val :
                       l2.val[k] = << Renamed(l.val[k][1], old, new),
                                      Renamed(l.val[k][2], old, new),
                                      l.val[k][3] >>

\* C13 (as claimed): a successful update_user changes only the name of the
\* one user called old_u_name, and whenever no user is called old_u_name
\* the call raises UserNotFoundError and changes nothing.
C13_RenameOrUserNotFound ==
    Boundary =>
        \A old \in UserNames, new \in UserNames :
            LET r == update_user(db, old, new)
            IN  /\ r.exc = None => RenamedOnly(db, r.db, old, new)
                /\ old \notin Range(db.users) =>
                      r = [db |-> db, exc |-> "UserNotFoundError"]

\* C13 (amended): a successful update_user changes only the name of the one
\* user called old_u_name: the u_id of that user, every other user, every
\* expense, every share and the archive are unchanged and the balances are
\* the same under the new name; when no user is called old_u_name the call
\* changes nothing and raises UserNotFoundError if new_u_name is a valid
\* username, IllegalUsernameError if it is not.
C13_RenameChangesOneName ==
    Boundary =>
        \A old \in UserNames, new \in UserNames :
            LET r == update_user(db, old, new)
            IN  /\ r.exc = None => RenamedOnly(db, r.db, old, new)
                /\ old \notin Range(db.users) =>
                      /\ r.db = db
                      /\ r.exc = IF validate_username(new).exc = None
                                 THEN "UserNotFoundError"
                                 ELSE "IllegalUsernameError"

\* user 2 owes user 1, user 1 can be renamed to a free name, and a rename
\* of a user nobody is called raises each of the two errors
C13_Witness ==
    /\ pc = "idle"
    /\ Len(db.users) = 2
    /\ get_status_list(db).exc = None
    /\ get_status_list(db).val # << >>
    /\ \E new \in UserNames :
          new \notin Range(db.users)
              /\ update_user(db, db.users[1], new).exc = None
    /\ \E old \in UserNames, new \in UserNames :
          update_user(db, old, new).exc = "UserNotFoundError"
    /\ \E old \in UserNames, new \in UserNames :
          old \notin Range(db.users)
              /\ update_user(db, old, new).exc = "IllegalUsernameError"

C15_MissingExpenseReads ==
    /\ [](Boundary =>
            \A e_id \in (1 .. NoExpense) \ DOMAIN db.expenses :
                /\ get_debtors(db, e_id) = << >>
                /\ get_expense(db, e_id).exc = "ExpenseNotFoundError")
    /\ [][GetMissing => db' = db /\ committed' = committed]_vars

\* a read has raised on a ledger where expense 1 is settled with its shares
\* archived, expense 2 is live and expense 3 was never created
C15_Witness ==
    /\ pc = "raised"
    /\ DOMAIN db.expenses = { 2 }
    /\ get_debtors(db, 2) # << >>
    /\ archived_debtors(db, 1) # << >>
    /\ db.seq_expenses < NoExpense

\* the calendar date an e_date stands for, as YYYYMMDD
DateOf(e_date) == strptime(e_date).val

\* C16 (as claimed): get_expenses returns every live expense exactly once,
\* in ascending order of date, expenses of the same date in ascending order
\* of id.
C16_ListedByDateThenId ==
    Boundary =>
        LET l == get_expenses(db)
        IN  /\ Len(l) = Cardinality(DOMAIN db.expenses)
            /\ \A e \in DOMAIN db.expenses :
                  \E k \in DOMAIN l : l[k] = get_expense(db, e).val
            /\ \A j \in DOMAIN l, k \in DOMAIN l :
                  j < k =>
                      \/ DateOf(l[j].date) < DateOf(l[k].date)
                      \/ DateOf(l[j].date) = DateOf(l[k].date)
                             /\ l[j].id < l[k].id

\* the live expenses of d paid by payer are one of 105 split between users 1
\* and 2 and one of 210 split between users 1, 2 and 3, and no other; every
\* other live expense is between users 1 and 2
PaidThe105AndThe210(d, payer) ==
    /\ Len(d.users) = 3
    /\ \A e \in DOMAIN d.expenses :
          d.expenses[e].payer # payer =>
              /\ d.expenses[e].payer \in { 1, 2 }
              /\ Range(get_debtors(d, e)) \subseteq { 1, 2 }
    /\ \E e1 \in DOMAIN d.expenses, e2 \in DOMAIN d.expenses :
          /\ { e \in DOMAIN d.expenses : d.expenses[e].payer = payer }
                 = { e1, e2 }
          /\ d.expenses[e1].cost = Real(105, 1)
          /\ SameBag(get_debtors(d, e1), << 1, 2 >>)
          /\ d.expenses[e2].cost = Real(210, 1)
          /\ SameBag(get_debtors(d, e2), << 1, 2, 3 >>)

\* d without the expenses paid by payer
WithoutExpensesOf(d, payer) ==
    LET kept == { e \in DOMAIN d.expenses : d.expenses[e].payer # payer }
    IN  [d EXCEPT !.expenses = [ e \in kept |-> d.expenses[e] ],
                  !.debts = [ e \in kept \cap DOMAIN d.debts |-> d.debts[e] ]]

\* what the user with u_id y must pay to the user with u_id x, in 1/Scale
Owes(d, x, y) ==
    get_status_dict(d, get_users_dict(d)).val[d.users[x]][d.users[y]]

\* the balances between users 1 and 2 are those of the ledger without the
\* expenses paid by user 3
PairUnaffectedByThird(d) ==
    /\ Owes(d, 1, 2) = Owes(WithoutExpensesOf(d, 3), 1, 2)
    /\ Owes(d, 2, 1) = Owes(WithoutExpensesOf(d, 3), 2, 1)

\* C17 (as claimed): with users A, B, C (u_id 1, 2, 3), once A has paid 105
\* split between A and B and 210 split between A, B and C, A is owed 122.5
\* by C and B is owed 122.5 by C, and the A/B pair is as without C's
\* expenses.
C17_PayerAIsOwedByC ==
    (Boundary /\ PaidThe105AndThe210(db, 1)) =>
        /\ 2 * Owes(db, 1, 3) = 245 * Scale
        /\ 2 * Owes(db, 2, 3) = 245 * Scale
        /\ PairUnaffectedByThird(db)

\* C17 (amended): with users A, B, C (u_id 1, 2, 3), once C has paid 105
\* split between A and B and 210 split between A, B and C, C is owed 122.5
\* by A and 122.5 by B, C owes A and B nothing, and the balances between A
\* and B are what they are without C's expenses.
C17_PayerCIsOwedByAAndB ==
    (Boundary /\ PaidThe105AndThe210(db, 3)) =>
        /\ 2 * Owes(db, 3, 1) = 245 * Scale
        /\ 2 * Owes(db, 3, 2) = 245 * Scale
        /\ Owes(db, 1, 3) = 0
        /\ Owes(db, 2, 3) = 0
        /\ PairUnaffectedByThird(db)

\* C has paid the 105 and the 210 while A is owed by B from another expense
C17_Witness ==
    /\ pc = "status"
    /\ PaidThe105AndThe210(db, 3)
    /\ Owes(db, 1, 2) > 0
    /\ << db.users[1], db.users[3], (245 * Scale) \div 2 >>
           \in Range(status_ret.val)

\* the text denotes a real number greater than zero
PositiveRealText(c) ==
    /\ float(c).exc = None
    /\ float(c).val.kind = "finite"
    /\ Positive(float(c).val)

\* C18 (as claimed): validate_expense_cost accepts an argument exactly when
\* it parses as a real number greater than zero, and returns that number;
\* every other argument raises IllegalExpenseCostError; so the cost of every
\* stored expense, live or archived, is a finite number greater than zero.
C18_CostIsAPositiveReal ==
    /\ \A e \in DOMAIN db.expenses :
          db.expenses[e].cost.kind = "finite" /\ Positive(db.expenses[e].cost)
    /\ \A k \in DOMAIN db.expenses_settled :
          /\ db.expenses_settled[k].cost.kind = "finite"
          /\ Positive(db.expenses_settled[k].cost)
    /\ \A c \in CostTexts :
          LET v == validate_expense_cost(c)
          IN  IF PositiveRealText(c)
              THEN v = [exc |-> None, val |-> float(c).val]
              ELSE v.exc = "IllegalExpenseCostError"

\* the text is a numeral: an integer or a decimal number, signed or not
IsNumberText(s) ==
    \/ ParsesAsInt(s)
    \/ ParseFloat(s).exc = None /\ ParseFloat(s).val.kind = "finite"

\* what the claim lets validate_username refuse
RefusedName(s) ==
    \/ s # Strip(s)
    \/ s = << >> \/ IsSpace(s)
    \/ "," \in Range(s)
    \/ IsNumberText(s)

\* C19 (as claimed): validate_username raises IllegalUsernameError for every
\* name that has blanks around it, is empty or blank, contains a comma or is
\* a numeral, an integer or not, signed or not, and returns every other name
\* as it is; so no stored user has such a name.
C19_UsernameIsNoNumber ==
    /\ \A k \in DOMAIN db.users : ~RefusedName(db.users[k])
    /\ \A s \in NameTexts :
          IF RefusedName(s)
          THEN validate_username(s).exc = "IllegalUsernameError"
          ELSE validate_username(s) = [exc |-> None, val |-> s]

\* what the gross loop of get_status_dict adds for the live expense e alone
ContributionOf(d, e) ==
    LET names == Range(UserValues(d))
        zero  == [ casher \in names |-> [ payer \in names |-> 0 ] ]
        es    == get_expenses(d)
    IN  GrossLoop(d, zero,
                  OrderedSubSeq(es, { k \in DOMAIN es : es[k].id = e }), 1)

\* C20 (as claimed): insert_expense stores one share for each entry of
\* debtors, a user given k times getting k shares; a live expense of cost c
\* with n shares, k of them of user x, adds k*c/n to what x owes the payer;
\* and the shares of every live expense add up to its cost.
C20_DuplicateDebtorsAreWeighted ==
    Boundary =>
        /\ \A a \in ExpenseArgs :
              LET r == insert_expense(db, a[1], a[2], a[3], a[4], a[5])
              IN  r.exc = None =>
                      \A x \in UserIds :
                          Occurrences(get_debtors(r.db, r.db.seq_expenses), x)
                              = Occurrences(a[5], x)
        /\ \A e \in DOMAIN db.expenses :
              LET D     == get_debtors(db, e)
                  cost  == Units(db.expenses[e].cost)
                  payer == db.users[db.expenses[e].payer]
                  c     == ContributionOf(db, e)
              IN  /\ c.exc = None
                  /\ \A x \in UserIdsOf(db) :
                        c.val[payer][db.users[x]] * Len(D)
                            = Occurrences(D, x) * cost
                  /\ Sum([ x \in UserIdsOf(db) |-> c.val[payer][db.users[x]] ],
                         UserIdsOf(db)) = cost

\* what get_status_dict reports between the users with u_id x and y: the
\* exception it raises, or what y must pay to x and x to y
PairReport(d, x, y) ==
    LET r == get_status_dict(d, get_users_dict(d))
    IN  IF r.exc # None THEN [exc |-> r.exc, val |-> << >>]
        ELSE [exc |-> None,
              val |-> << r.val[d.users[x]][d.users[y]],
                         r.val[d.users[y]][d.users[x]] >>]

\* the live expense e is paid by one of x and y with the other among its
\* debtors
IsBetween(d, e, x, y) ==
    \/ d.expenses[e].payer = x /\ y \in Range(get_debtors(d, e))
    \/ d.expenses[e].payer = y /\ x \in Range(get_debtors(d, e))

\* d with only the live expenses that are between x and y
Between(d, x, y) ==
    LET kept == { e \in DOMAIN d.expenses : IsBetween(d, e, x, y) }
    IN  [d EXCEPT !.expenses = [ e \in kept |-> d.expenses[e] ],
                  !.debts = [ e \in kept \cap DOMAIN d.debts |-> d.debts[e] ]]

\* the arguments payer and debtors name an expense that is not between x
\* and y
NotBetween(payer, debtors, x, y) ==
    /\ ~(payer = x /\ y \in Range(debtors))
    /\ ~(payer = y /\ x \in Range(debtors))

\* C21 (as claimed): what is reported between two users x and y is what is
\* reported for the ledger of the expenses between x and y alone, so it is
\* nothing when there is none, whatever each of them owes to others; and a
\* successful insert_expense, or update_expense of an expense not between x
\* and y, with a payer and debtors not between x and y leaves it as it was.
C21_NettingIsBilateral ==
    Boundary =>
        \A x \in UserIdsOf(db), y \in UserIdsOf(db) : x # y =>
            /\ PairReport(db, x, y) = PairReport(Between(db, x, y), x, y)
            /\ \A a \in ExpenseArgs :
                  LET r == insert_expense(db, a[1], a[2], a[3], a[4], a[5])
                  IN  (r.exc = None /\ NotBetween(a[4], a[5], x, y)) =>
                          PairReport(r.db, x, y) = PairReport(db, x, y)
            /\ \A u \in UpdateArgs :
                  LET a == u[2]
                      r == update_expense(db, u[1], a[1], a[2], a[3], a[4],
                                          a[5])
                  IN  (/\ r.exc = None
                       /\ ~IsBetween(db, u[1], x, y)
                       /\ NotBetween(a[4], a[5], x, y)) =>
                          PairReport(r.db, x, y) = PairReport(db, x, y)

\* the archive of d2 holds every settlement event, archived expense and
\* archived share of d1 as it is in d1, under the same id
ArchiveKept(d1, d2) ==
    /\ Len(d2.settles) >= Len(d1.settles)
    /\ SubSeq(d2.settles, 1, Len(d1.settles)) = d1.settles
    /\ Len(d2.expenses_settled) >= Len(d1.expenses_settled)
    /\ SubSeq(d2.expenses_settled, 1, Len(d1.expenses_settled))
           = d1.expenses_settled
    /\ \A k \in DOMAIN d1.expenses_settled :
          archived_debtors(d2, k) = archived_debtors(d1, k)

\* what the archive of d2 holds beyond that of d1 is one settlement event
\* at most, and archived expenses and shares of that event
ArchiveGrownByOneEvent(d1, d2) ==
    /\ Len(d2.settles) <= Len(d1.settles) + 1
    /\ \A k \in DOMAIN d2.expenses_settled \ DOMAIN d1.expenses_settled :
          /\ Len(d2.settles) = Len(d1.settles) + 1
          /\ d2.expenses_settled[k].settle = Len(d2.settles)
    /\ DOMAIN d2.debts_settled \ DOMAIN d1.debts_settled
           \subseteq DOMAIN d2.expenses_settled \ DOMAIN d1.expenses_settled

\* C22: the archive is append-only.  No step of insert_user, insert_expense,
\* update_expense or settle changes or removes a committed settlement
\* event, archived expense or archived share; the rows a running
\* settle_expenses has written stay as written until it commits or fails; a
\* settle that commits adds one event with archived expenses and shares of
\* that event, and a step of any other call leaves the archive as it is.
C22_ArchiveIsAppendOnly ==
    [][ /\ ArchiveKept(committed, committed')
        /\ ArchiveGrownByOneEvent(committed, committed')
        /\ pc' # "aborted" => ArchiveKept(db, db')
        /\ pc' # "settled" => Archive(committed') = Archive(committed)
      ]_vars

\* a second settlement has committed: the archive holds two events, an
\* expense with shares of the first and an expense with shares of the second
C22_Witness ==
    /\ pc = "settled"
    /\ Len(committed.settles) = 2
    /\ \E j \in DOMAIN committed.debts_settled,
          k \in DOMAIN committed.debts_settled :
          /\ committed.expenses_settled[j].settle = 1
          /\ committed.expenses_settled[k].settle = 2

\* the u_ids of the names of a line, one per name and in order, if every
\* name of the line is the name of a user
IdsOfLine(d, line) ==
    [ j \in DOMAIN Split(line, ",") |->
        get_u_id(d, Strip(Split(line, ",")[j])).val ]

AllNamesExist(d, line) ==
    \A j \in DOMAIN Split(line, ",") :
        get_u_id(d, Strip(Split(line, ",")[j])).exc = None

\* C23 (as claimed): read_usernames reads lines until every name of a line
\* is the name of a user, and returns the u_ids of the names of that line,
\* one per name and in order, and nothing from the lines before it; so the
\* debtors add_expense stores are those of the last line read.
C23_ReadUsernamesReturnsLastLine ==
    /\ \A lines \in DebtorLines :
          LET r == read_usernames(db, lines, 1)
          IN  /\ r.exc = None <=>
                    \E k \in DOMAIN lines : AllNamesExist(db, lines[k])
              /\ r.exc = None =>
                    /\ AllNamesExist(db, lines[r.at])
                    /\ \A k \in 1 .. r.at - 1 : ~AllNamesExist(db, lines[k])
                    /\ r.val = IdsOfLine(db, lines[r.at])
    /\ \A e \in DOMAIN db.expenses :
          \E line \in DebtorLine :
              /\ AllNamesExist(db, line)
              /\ get_debtors(db, e) = IdsOfLine(db, line)

\* the answer is a confirmation: y or yes in any letter case and with
\* blanks around it, or the empty answer when default_y
IsConfirmation(ans, default_y) ==
    \/ LowerText(Strip(ans)) \in { <<"y">>, <<"y", "e", "s">> }
    \/ default_y /\ ans = << >>

\* C24 (as claimed): whenever settle() has shown the status and prompts,
\* confirm returns True exactly when the answer that ends its loop is y or
\* yes, in any letter case and with blanks around it, or is empty while
\* default_y is True, and False otherwise; settle() calls settle_expenses
\* exactly when confirm returns True.
C24_ConfirmReturnsTheAnswer ==
    (Boundary /\ get_status_list(db).exc = None) =>
        \A stdin \in AnswerStdins, default_y \in BOOLEAN :
            LET r == confirm(stdin, 1, default_y)
            IN  r.exc = None =>
                    r.val = IsConfirmation(stdin[r.at], default_y)

\* C25: the e_id of a live expense is never reused.  Every e_id given so far
\* is at most the counter seq_expenses, the counter never decreases, and an
\* expense that appears in the ledger gets an e_id greater than the
\* counter, so greater than every e_id given before, settled or not (a
\* failed settle only brings back the expenses it had not committed to
\* remove); and get_expense and update_expense with the e_id of a settled expense raise
\* ExpenseNotFoundError and leave every expense as it is.
C25_ExpenseIdsAreNeverReused ==
    /\ [](/\ DOMAIN db.expenses \subseteq 1 .. db.seq_expenses
          /\ Boundary =>
                \A e_id \in (1 .. db.seq_expenses) \ DOMAIN db.expenses :
                    /\ get_expense(db, e_id).exc = "ExpenseNotFoundError"
                    /\ \A a \in ArchiveArgs :
                          update_expense(db, e_id, a[1], a[2], a[3], a[4],
                                         a[5])
                              = [db |-> db, exc |-> "ExpenseNotFoundError"])
    /\ [][ /\ db'.seq_expenses >= db.seq_expenses
           /\ committed'.seq_expenses >= committed.seq_expenses
           /\ pc' # "aborted" =>
                 \A e \in DOMAIN db'.expenses \ DOMAIN db.expenses :
                     e > db.seq_expenses
           /\ \A e \in DOMAIN committed'.expenses
                         \ DOMAIN committed.expenses :
                 e > committed.seq_expenses
         ]_vars

\* expense 1 is settled and archived, and the expense inserted after the
\* settlement is live with e_id 2
C25_Witness ==
    /\ pc = "idle"
    /\ Len(db.settles) = 1
    /\ Len(db.expenses_settled) = 1
    /\ DOMAIN db.expenses = { 2 }
    /\ db.seq_expenses = 2

\* in the store d every live share is of a live expense, every archived
\* share of an archived expense, and every archived expense of a settlement
\* event
NoOrphans(d) ==
    /\ \A e \in DOMAIN d.debts : d.debts[e] # << >> => e \in DOMAIN d.expenses
    /\ \A k \in DOMAIN d.debts_settled :
          d.debts_settled[k] # << >> => k \in DOMAIN d.expenses_settled
    /\ \A k \in DOMAIN d.expenses_settled :
          d.expenses_settled[k].settle \in DOMAIN d.settles

\* C26: no share is orphaned.  In the committed store, and in the store as
\* the connection sees it at every statement, every row of debts is of a row
\* of expenses, every row of debts_settled of a row of expenses_settled, and
\* every row of expenses_settled of a row of settles.
C26_NoOrphanedShares == NoOrphans(committed) /\ NoOrphans(db)

\* a live expense has shares beside archived expenses with shares of two
\* settlement events
C26_Witness ==
    /\ pc = "idle"
    /\ \E e \in DOMAIN db.expenses : get_debtors(db, e) # << >>
    /\ Len(db.settles) = 2
    /\ \E j \in DOMAIN db.debts_settled : db.expenses_settled[j].settle = 1

====
